---- MODULE Spec2Model ----
(***************************************************************************)
(* Hybrid fraud scorer (gbs_ml_model) and cardholder ranking API           *)
(* (card_ranking_model).                                                   *)
(*                                                                         *)
(* Scores are probabilities in [0,1]; they are represented as integers in  *)
(* units of 1/10000, so 0.3 is 3000 and 1.0 is 10000.  The hybrid weights  *)
(* 0.7 and 0.3 are represented in tenths (7 and 3).                        *)
(*                                                                         *)
(* A transaction is a Python dict.  It is represented as a record whose    *)
(* field keys is the set of keys the dict holds; the value fields are      *)
(* meaningful only for keys that are present, and reading a key that is    *)
(* absent is a KeyError.                                                   *)
(***************************************************************************)
EXTENDS Integers, Sequences, FiniteSets, TLC

VARIABLES
    user_histories,   \* RuleBasedFraudDetector.user_histories: user -> list
    ml_model,         \* TrueHybridFraudDetector.ml_model: "loaded" or "none"
    detector,         \* server.detector: "ready" or "none"
    result,           \* what the last detect_fraud call returned
    call,             \* the last operation and its inputs
    response,         \* HTTP status of the last endpoint call (0: none yet)
    added,            \* log of every (user, transaction) appended, in order
    \* Two request threads inside add_transaction_to_history
    c_dict,           \* user_histories as a dict: user -> identity of its list
    c_heap,           \* the list objects, by identity
    c_pc,             \* thread -> the statement it is about to execute
    c_req,            \* thread -> the (user, transaction) of its request
    c_ref,            \* thread -> the list object it loaded for the append
    c_served,         \* thread -> number of requests it has finished
    c_completed,      \* log of the (user, transaction) of every finished add
    c_overlapped,     \* users for which two adds ran at the same time
    \* Cardholder ranking API
    r_model,          \* ranking_api.model: "loaded" or "none"
    r_fe,             \* ranking_api.feature_engineer: "none", "unfitted", "fitted"
    r_score,          \* the loaded classifier: cardholder -> health score
    r_call,           \* the last ranking request
    r_resp            \* its response

fraudVars == <<user_histories, ml_model, detector, result, call, response, added>>

concVars == <<c_dict, c_heap, c_pc, c_req, c_ref, c_served, c_completed, c_overlapped>>

rankVars == <<r_model, r_fe, r_score, r_call, r_resp>>

vars == <<fraudVars, concVars, rankVars>>

----------------------------------------------------------------------------
(* Bounds and input domains *)

\* Transactions recorded in the histories of all users together.
MaxTotal == 3

\* Requests each thread handles in the concurrent specification.
MaxRequests == 1

Threads == {"t1", "t2"}

Users == {"u1", "u2"}

\* The keys of a transaction dict built by prepare_transaction_data.
PreparedKeys == {"user_id", "amount", "merchant_category", "city",
                 "device_type", "payment_method", "hour_of_day", "timestamp"}

Tx(keys, amount, hod, hour, city, dev) ==
    [keys |-> keys, amount |-> amount, hour_of_day |-> hod, hour |-> hour,
     city |-> city, device_type |-> dev]

\* Transactions a caller records with add_transaction_to_history: dicts that
\* carry the key 'hour' the rule engine reads, beside 'hour_of_day'.
HistoryInputs ==
    { Tx(PreparedKeys \cup {"hour"}, 1000, 14, 14, "home", "mobile"),
      Tx(PreparedKeys \cup {"hour"}, 60000, 3, 3, "away", "desktop") }

\* Transactions a caller passes to detect_fraud: the two above, one without
\* 'amount', one without 'hour_of_day' and one without 'merchant_category'.
Transactions ==
    HistoryInputs
    \cup { Tx((PreparedKeys \cup {"hour"}) \ {"amount"}, 0, 14, 14, "home", "mobile"),
           Tx((PreparedKeys \cup {"hour"}) \ {"hour_of_day"}, 20000, 0, 9, "home", "desktop"),
           Tx(PreparedKeys \ {"merchant_category"}, 1000, 14, 0, "home", "mobile") }

\* What the classifier does on a call: it raises, or it returns a probability.
MLOutcomes ==
    { [raises |-> TRUE, p |-> 0] }
    \cup { [raises |-> FALSE, p |-> q] : q \in {0, 3000, 10000} }

\* JSON payloads of POST /detect.
Payload(keys, user_id, amount, hod, city, dev) ==
    [keys |-> keys, user_id |-> user_id, amount |-> amount, hour_of_day |-> hod,
     city |-> city, device_type |-> dev]

RequiredFields == {"user_id", "amount", "merchant_category", "city",
                   "device_type", "payment_method", "hour_of_day"}

Payloads ==
    { Payload(RequiredFields, u, 1000, 14, "home", "mobile") : u \in Users }
    \cup { Payload(RequiredFields \cup {"hour"}, u, 60000, 3, "away", "desktop") : u \in Users }
    \cup { Payload(RequiredFields \ {"amount"}, "u1", 0, 14, "home", "mobile"),
           Payload(RequiredFields, "u1", -5, 14, "home", "mobile"),
           Payload(RequiredFields, "u1", 1000, 24, "home", "mobile"),
           Payload({}, "u1", 0, 0, "home", "mobile") }

----------------------------------------------------------------------------
(* rule_based_detector.py and config.py *)

Has(tx, k) == k \in tx.keys

Max(a, b) == IF a >= b THEN a ELSE b

RECURSIVE SumAmounts(_)
SumAmounts(h) == IF h = <<>> THEN 0 ELSE Head(h).amount + SumAmounts(Tail(h))

\* config.FRAUD_THRESHOLDS: the table holds these two keys and no other.
FRAUD_THRESHOLDS == [low_risk |-> 2000, high_risk |-> 5000]

\* RuleBasedFraudDetector.fraud_rules
fraud_rules ==
    [ high_amount_night |->
          [amount_threshold |-> 15000, hour_lo |-> 2, hour_hi |-> 5, risk_score |-> 8500],
      very_high_amount_different_city |->
          [amount_threshold |-> 30000, risk_score |-> 9000],
      high_amount_different_device |->
          [amount_threshold |-> 20000, risk_score |-> 8000],
      unusual_time_pattern |-> [risk_score |-> 7000],
      amount_spike |-> [multiplier |-> 5, risk_score |-> 7500] ]

\* The history length below which get_user_statistics returns None.
MinHistory == 3

\* The literal risk score rules 4 and 5 assign.
LessAggressiveScore == 4000

\* The risk score of the two early returns of detect_fraud (new user, except).
RuleDefaultScore == 1000

\* The score at which the block rule fires on its own.
VeryHighRisk == 9000

\* The number of triggered rules that allows a block.
MinRulesForBlock == 2

\* Mutant: statistics are computed from two transactions on.
get_user_statistics_min2(hists, user_id) ==
    IF user_id \notin DOMAIN hists \/ Len(hists[user_id]) < MinHistory - 1
    THEN [kind |-> "none"]
    ELSE LET history == hists[user_id]
             idx == 1..Len(history)
         IN  IF \E i \in idx : ~Has(history[i], "amount") \/ ~Has(history[i], "hour")
                                 \/ ~Has(history[i], "city")
                                 \/ ~Has(history[i], "device_type")
             THEN [kind |-> "raise"]
             ELSE [kind |-> "ok",
                   sum_amount |-> SumAmounts(history),
                   transaction_count |-> Len(history),
                   common_hours |-> {history[i].hour : i \in idx},
                   common_cities |-> {history[i].city : i \in idx},
                   common_devices |-> {history[i].device_type : i \in idx}]

\* get_user_statistics: None, a KeyError while the lists are built, or the stats.
get_user_statistics(hists, user_id) ==
    IF user_id \notin DOMAIN hists \/ Len(hists[user_id]) < MinHistory
    THEN [kind |-> "none"]
    ELSE LET history == hists[user_id]
             idx == 1..Len(history)
         IN  IF \E i \in idx : ~Has(history[i], "amount") \/ ~Has(history[i], "hour")
                                 \/ ~Has(history[i], "city")
                                 \/ ~Has(history[i], "device_type")
             THEN [kind |-> "raise"]
             ELSE [kind |-> "ok",
                   sum_amount |-> SumAmounts(history),
                   transaction_count |-> Len(history),
                   common_hours |-> {history[i].hour : i \in idx},
                   common_cities |-> {history[i].city : i \in idx},
                   common_devices |-> {history[i].device_type : i \in idx}]

\* The reads of the transaction the five rule conditions make, with Python's
\* short-circuit "and": a KeyError when a key that is read is absent.
RuleAccessRaises(tx) ==
    \/ ~Has(tx, "amount")
    \/ ~Has(tx, "hour")
    \/ /\ tx.amount >= fraud_rules.very_high_amount_different_city.amount_threshold
       /\ ~Has(tx, "city")
    \/ /\ tx.amount >= fraud_rules.high_amount_different_device.amount_threshold
       /\ ~Has(tx, "device_type")

HighAmountNight(tx) ==
    /\ tx.amount >= fraud_rules.high_amount_night.amount_threshold
    /\ fraud_rules.high_amount_night.hour_lo <= tx.hour
    /\ tx.hour <= fraud_rules.high_amount_night.hour_hi

VeryHighAmountDifferentCity(tx, stats) ==
    /\ tx.amount >= fraud_rules.very_high_amount_different_city.amount_threshold
    /\ tx.city \notin stats.common_cities

HighAmountDifferentDevice(tx, stats) ==
    /\ tx.amount >= fraud_rules.high_amount_different_device.amount_threshold
    /\ tx.device_type \notin stats.common_devices

UnusualTimePattern(tx, stats) == tx.hour \notin stats.common_hours

\* amount > avg_amount * multiplier, with avg_amount = sum / count
AmountSpike(tx, stats) ==
    tx.amount * stats.transaction_count
        > stats.sum_amount * fraud_rules.amount_spike.multiplier

\* rule_results in the order the rules are applied: the rules that triggered,
\* each with the risk score the code gives it.
rule_results(tx, stats) ==
    LET all == << [rule |-> "high_amount_night",
                   risk_score |-> fraud_rules.high_amount_night.risk_score,
                   triggered |-> HighAmountNight(tx)],
                  [rule |-> "very_high_amount_different_city",
                   risk_score |-> fraud_rules.very_high_amount_different_city.risk_score,
                   triggered |-> VeryHighAmountDifferentCity(tx, stats)],
                  [rule |-> "high_amount_different_device",
                   risk_score |-> fraud_rules.high_amount_different_device.risk_score,
                   triggered |-> HighAmountDifferentDevice(tx, stats)],
                  [rule |-> "unusual_time_pattern",
                   risk_score |-> LessAggressiveScore,
                   triggered |-> UnusualTimePattern(tx, stats)],
                  [rule |-> "amount_spike",
                   risk_score |-> LessAggressiveScore,
                   triggered |-> AmountSpike(tx, stats)] >>
        Triggered(r) == r.triggered
    IN  SelectSeq(all, Triggered)

RECURSIVE MaxRisk(_)
MaxRisk(rs) == IF rs = <<>> THEN 0 ELSE Max(Head(rs).risk_score, MaxRisk(Tail(rs)))

\* The keys of the three dicts detect_fraud returns.  A field of the record
\* whose name is not in keys is absent from the dict.
InsufficientKeys == {"risk_score", "risk_level", "requires_verification",
                     "block_transaction", "message", "rule_analysis"}

RuleErrorKeys == {"error", "risk_score", "risk_level", "requires_verification",
                  "block_transaction"}

RuleDecisionKeys == {"risk_score", "risk_level", "requires_verification",
                     "block_transaction", "rule_analysis", "user_stats"}

\* The first return of detect_fraud: no statistics for the user.
InsufficientHistoryResult ==
    [keys |-> InsufficientKeys,
     risk_score |-> RuleDefaultScore, risk_level |-> "LOW",
     requires_verification |-> FALSE, block_transaction |-> FALSE,
     rule_analysis |-> <<>>, path |-> "insufficient_history"]

\* The return of detect_fraud's except clause.
RuleErrorResult ==
    [keys |-> RuleErrorKeys,
     risk_score |-> RuleDefaultScore, risk_level |-> "LOW",
     requires_verification |-> FALSE, block_transaction |-> FALSE,
     rule_analysis |-> <<>>, path |-> "error"]

\* Lines 170-198: the decision, reached when every lookup before it succeeded.
RuleDecision(rs) ==
    LET max_risk_score == MaxRisk(rs)
        num_rules_triggered == Len(rs)
    IN  [keys |-> RuleDecisionKeys,
         risk_score |-> max_risk_score,
         risk_level |->
             IF max_risk_score = 0 THEN "LOW"
             ELSE IF max_risk_score >= FRAUD_THRESHOLDS["block_threshold"] THEN "HIGH"
             ELSE IF max_risk_score >= FRAUD_THRESHOLDS["high_risk"] THEN "HIGH"
             ELSE "MEDIUM",
         requires_verification |-> max_risk_score > FRAUD_THRESHOLDS["low_risk"],
         block_transaction |->
             /\ max_risk_score >= FRAUD_THRESHOLDS["block_threshold"]
             /\ \/ num_rules_triggered >= MinRulesForBlock
                \/ max_risk_score >= VeryHighRisk,
         rule_analysis |-> rs, path |-> "rules"]

\* A lookup FRAUD_THRESHOLDS[key] raises KeyError when the table lacks the key.
ThresholdLookupRaises(key) == key \notin DOMAIN FRAUD_THRESHOLDS

\* The locals of detect_fraud when line 170 is reached (rule_results,
\* max_risk_score, num_rules_triggered); reached is FALSE when the call
\* returned or raised before that line.
RuleLocals(hists, user_id, tx) ==
    LET stats == get_user_statistics(hists, user_id)
    IN  IF stats.kind # "ok" \/ RuleAccessRaises(tx)
        THEN [reached |-> FALSE, rule_results |-> <<>>,
              max_risk_score |-> 0, num_rules_triggered |-> 0]
        ELSE LET rs == rule_results(tx, stats)
             IN  [reached |-> TRUE, rule_results |-> rs,
                  max_risk_score |-> MaxRisk(rs), num_rules_triggered |-> Len(rs)]

\* RuleBasedFraudDetector.detect_fraud
RuleDetectFraud(hists, user_id, tx) ==
    LET stats == get_user_statistics(hists, user_id)
    IN  IF stats.kind = "raise" THEN RuleErrorResult
        ELSE IF stats.kind = "none" THEN InsufficientHistoryResult
        ELSE IF RuleAccessRaises(tx) THEN RuleErrorResult
        ELSE IF ThresholdLookupRaises("block_threshold") THEN RuleErrorResult
        ELSE RuleDecision(rule_results(tx, stats))

\* Mutant: the new transaction is put in front of the list.
AddToHistory_prepend(hists, user_id, tx) ==
    LET withKey == IF user_id \in DOMAIN hists THEN hists
                   ELSE [u \in DOMAIN hists \cup {user_id} |->
                            IF u = user_id THEN <<>> ELSE hists[u]]
    IN  [withKey EXCEPT ![user_id] = <<tx>> \o @]

\* RuleBasedFraudDetector.add_transaction_to_history
AddToHistory(hists, user_id, tx) ==
    LET withKey == IF user_id \in DOMAIN hists THEN hists
                   ELSE [u \in DOMAIN hists \cup {user_id} |->
                            IF u = user_id THEN <<>> ELSE hists[u]]
    IN  [withKey EXCEPT ![user_id] = Append(@, tx)]

----------------------------------------------------------------------------
(* true_hybrid_detector.py *)

\* Hybrid weights, in tenths.
ml_weight == 7
rule_weight == 3

\* The score every except clause and the missing-model branch return (0.5).
DefaultScore == 5000

\* The three thresholds of the "aggressive logic" condition.
MlFlagThreshold == 3000
RuleFlagThreshold == 3000
HybridFlagThreshold == 4000

\* The amount above which a "High amount transaction" reason is added.
HighAmountReason == 50000

\* _prepare_ml_features returns None: one of the keys it reads is absent.
FeaturesFail(tx) ==
    \/ ~Has(tx, "amount")
    \/ ~Has(tx, "hour_of_day")
    \/ ~Has(tx, "merchant_category")
    \/ ~Has(tx, "city")
    \/ ~Has(tx, "payment_method")

\* Mutant: the prediction call is not guarded by its try/except.
get_ml_prediction_unguarded(model, tx, outcome) ==
    IF model = "none" THEN DefaultScore
    ELSE IF FeaturesFail(tx) THEN DefaultScore
    ELSE IF outcome.raises THEN 0 - 1
    ELSE outcome.p

\* _get_ml_prediction.  outcome is what the library calls do on this input:
\* raise, or return the probability outcome.p.
get_ml_prediction(model, tx, outcome) ==
    IF model = "none" THEN DefaultScore
    ELSE IF FeaturesFail(tx) THEN DefaultScore
    ELSE IF outcome.raises THEN DefaultScore
    ELSE outcome.p

\* _get_rule_prediction: the rule detector always returns a dict with risk_score.
get_rule_prediction(hists, user_id, tx) ==
    RuleDetectFraud(hists, user_id, tx).risk_score

\* Mutant: the two weights exchanged.
HybridScore_swapped(ml_score, rule_score) ==
    (rule_weight * ml_score + ml_weight * rule_score) \div 10

\* Mutant: the two scores added without weights.
HybridScore_sum(ml_score, rule_score) == ml_score + rule_score

\* (ml_weight * ml_score) + (rule_weight * rule_score)
HybridScore(ml_score, rule_score) ==
    (ml_weight * ml_score + rule_weight * rule_score) \div 10

\* Mutant: strict comparisons.
FlagAsFraud_strict(ml_score, rule_score, hybrid_score) ==
    \/ ml_score > MlFlagThreshold
    \/ rule_score > RuleFlagThreshold
    \/ hybrid_score > HybridFlagThreshold

\* The condition of the "aggressive logic" branch.
FlagAsFraud(ml_score, rule_score, hybrid_score) ==
    \/ ml_score >= MlFlagThreshold
    \/ rule_score >= RuleFlagThreshold
    \/ hybrid_score >= HybridFlagThreshold

\* Building the reasons reads transaction['amount'] and transaction['hour_of_day'].
ReasonsRaise(tx) == ~Has(tx, "amount") \/ ~Has(tx, "hour_of_day")

Reasons(tx, ml_score, rule_score) ==
    (IF ml_score > MlFlagThreshold THEN {"ml"} ELSE {})
    \cup (IF rule_score > RuleFlagThreshold THEN {"rule"} ELSE {})
    \cup (IF tx.amount > HighAmountReason THEN {"high_amount"} ELSE {})
    \cup (IF tx.hour_of_day \in 1..5 THEN {"suspicious_time"} ELSE {})

HybridKeys == {"risk_score", "risk_level", "requires_verification",
               "block_transaction", "detection_method", "ml_score", "rule_score",
               "hybrid_analysis", "reasons", "confidence"}

ErrorKeys == {"risk_score", "risk_level", "requires_verification",
              "block_transaction", "detection_method", "ml_score", "rule_score",
              "error"}

\* The dict detect_fraud returns from its except clause.
HybridErrorResult ==
    [keys |-> ErrorKeys,
     risk_score |-> DefaultScore, risk_level |-> "MEDIUM",
     requires_verification |-> TRUE, block_transaction |-> FALSE,
     detection_method |-> "error",
     ml_score |-> DefaultScore, rule_score |-> DefaultScore,
     reasons |-> {}, confidence |-> "none"]

\* The dict detect_fraud returns from its try block.
HybridResult(tx, ml_score, rule_score) ==
    LET hybrid_score == HybridScore(ml_score, rule_score)
        fraud == FlagAsFraud(ml_score, rule_score, hybrid_score)
    IN  [keys |-> HybridKeys,
         risk_score |-> hybrid_score,
         risk_level |-> IF fraud THEN "HIGH" ELSE "LOW",
         requires_verification |-> fraud,
         block_transaction |-> fraud,
         detection_method |-> "hybrid_ml_rule",
         ml_score |-> ml_score, rule_score |-> rule_score,
         reasons |-> Reasons(tx, ml_score, rule_score),
         confidence |-> IF fraud THEN "high" ELSE "low"]

\* An exception leaving a function.
Raised == [keys |-> {}, raised |-> TRUE]

\* The try block of detect_fraud: its return value, or the exception it raises.
DetectFraudTry(hists, model, user_id, tx, outcome) ==
    LET ml_score == get_ml_prediction(model, tx, outcome)
        rule_score == get_rule_prediction(hists, user_id, tx)
    IN  IF ReasonsRaise(tx) THEN Raised
        ELSE HybridResult(tx, ml_score, rule_score)

\* Mutant: no except clause around the try block.
HybridDetectFraud_noexcept(hists, model, user_id, tx, outcome) ==
    DetectFraudTry(hists, model, user_id, tx, outcome)

\* TrueHybridFraudDetector.detect_fraud: the try block under "except Exception"
HybridDetectFraud(hists, model, user_id, tx, outcome) ==
    LET r == DetectFraudTry(hists, model, user_id, tx, outcome)
    IN  IF r.keys = {} THEN HybridErrorResult ELSE r

\* self.rule_detector.user_histories.get(user_id, [])
HistoryOf(hists, u) == IF u \in DOMAIN hists THEN hists[u] ELSE << >>

\* The local variables of the last detect_fraud call, kept with the call.
Locals(hists, model, user_id, tx, outcome) ==
    [user_history |-> HistoryOf(hists, user_id),
     ml_score |-> get_ml_prediction(model, tx, outcome),
     rule_score |-> get_rule_prediction(hists, user_id, tx),
     rule_path |-> RuleDetectFraud(hists, user_id, tx).path,
     rule |-> RuleDetectFraud(hists, user_id, tx),
     rule_locals |-> RuleLocals(hists, user_id, tx)]

----------------------------------------------------------------------------
(* State machine of one detector instance *)

NoResult == [keys |-> {}]
NoCall == [op |-> "none"]

TotalRecorded == Len(added)

NoResponse == [status |-> 0]

\* The detector instance right after construction.
InitFraud ==
    /\ user_histories = << >>
    /\ result = NoResult
    /\ call = NoCall
    /\ response = 0
    /\ added = << >>

InitConc ==
    /\ c_dict = << >>
    /\ c_heap = << >>
    /\ c_pc = [t \in Threads |-> "idle"]
    /\ c_req = [t \in Threads |-> NoCall]
    /\ c_ref = [t \in Threads |-> 0]
    /\ c_served = [t \in Threads |-> 0]
    /\ c_completed = << >>
    /\ c_overlapped = {}

\* The ranking API before load_model_and_pipeline has run.
InitRankIdle ==
    /\ r_model = "none"
    /\ r_fe = "none"
    /\ r_score = << >>
    /\ r_call = NoCall
    /\ r_resp = NoResponse

Init ==
    /\ InitFraud
    /\ ml_model \in {"loaded", "none"}
    /\ detector \in {"ready", "none"}
    /\ InitConc
    /\ InitRankIdle

Idle == call = NoCall

\* TrueHybridFraudDetector.add_transaction_to_history, called directly
AddTransaction(u, tx) ==
    /\ detector = "ready"
    /\ Idle
    /\ TotalRecorded < MaxTotal
    /\ user_histories' = AddToHistory(user_histories, u, tx)
    /\ added' = Append(added, <<u, tx>>)
    /\ call' = [op |-> "add_transaction_to_history", user |-> u, tx |-> tx,
                before |-> user_histories]
    /\ UNCHANGED <<ml_model, detector, result, response>>
    /\ UNCHANGED <<concVars, rankVars>>

\* TrueHybridFraudDetector.detect_fraud, called directly
DetectFraud(u, tx, o) ==
    /\ detector = "ready"
    /\ Idle
    /\ result' = HybridDetectFraud(user_histories, ml_model, u, tx, o)
    /\ call' = [op |-> "detect_fraud", user |-> u, tx |-> tx, outcome |-> o,
                before |-> user_histories,
                locals |-> Locals(user_histories, ml_model, u, tx, o)]
    /\ UNCHANGED <<user_histories, ml_model, detector, response, added>>
    /\ UNCHANGED <<concVars, rankVars>>

\* Mutant: the range of hour_of_day is not checked.
validate_transaction_data_norange(data) ==
    /\ RequiredFields \subseteq data.keys
    /\ data.amount >= 0

\* server.validate_transaction_data: TRUE when the payload is valid
validate_transaction_data(data) ==
    /\ RequiredFields \subseteq data.keys
    /\ data.amount >= 0
    /\ 0 <= data.hour_of_day /\ data.hour_of_day <= 23

\* server.prepare_transaction_data copies the required fields and a timestamp;
\* any other key of the payload is dropped.
prepare_transaction_data(data) ==
    Tx(PreparedKeys, data.amount, data.hour_of_day, 0, data.city, data.device_type)

\* Mutant: the transaction is appended before it is scored.
DetectAndRecord_append_first(hists, model, user_id, transaction, o) ==
    LET h == AddToHistory(hists, user_id, transaction)
    IN  [result |-> HybridDetectFraud(h, model, user_id, transaction, o),
         locals |-> Locals(h, model, user_id, transaction, o),
         histories |-> h]

\* The two detector calls every handler makes for a valid transaction:
\* detector.detect_fraud, then detector.add_transaction_to_history.
DetectAndRecord(hists, model, user_id, transaction, o) ==
    [result |-> HybridDetectFraud(hists, model, user_id, transaction, o),
     locals |-> Locals(hists, model, user_id, transaction, o),
     histories |-> AddToHistory(hists, user_id, transaction)]

\* POST /detect
Detect(data, o) ==
    /\ Idle
    /\ call' = [op |-> "/detect", data |-> data, user |-> data.user_id,
                tx |-> prepare_transaction_data(data), outcome |-> o,
                before |-> user_histories,
                locals |-> DetectAndRecord(user_histories, ml_model, data.user_id,
                                           prepare_transaction_data(data), o).locals]
    /\ IF detector = "none"
       THEN /\ response' = 503
            /\ UNCHANGED <<user_histories, result, added>>
       ELSE IF data.keys = {} \/ ~validate_transaction_data(data)
       THEN /\ response' = 400
            /\ UNCHANGED <<user_histories, result, added>>
       ELSE LET transaction == prepare_transaction_data(data)
                r == DetectAndRecord(user_histories, ml_model,
                                     data.user_id, transaction, o)
            IN  /\ TotalRecorded < MaxTotal
                /\ result' = r.result
                /\ user_histories' = r.histories
                /\ added' = Append(added, <<data.user_id, transaction>>)
                /\ response' = 200
    /\ UNCHANGED <<ml_model, detector>>
    /\ UNCHANGED <<concVars, rankVars>>

\* The caller takes the returned value and is free to make its next call.
Return ==
    /\ ~Idle
    /\ call' = NoCall
    /\ result' = NoResult
    /\ response' = 0
    /\ UNCHANGED <<user_histories, ml_model, detector, added>>
    /\ UNCHANGED <<concVars, rankVars>>

Next ==
    \/ \E u \in Users, tx \in HistoryInputs : AddTransaction(u, tx)
    \/ \E u \in Users, tx \in Transactions, o \in MLOutcomes : DetectFraud(u, tx, o)
    \/ \E data \in Payloads, o \in MLOutcomes : Detect(data, o)
    \/ Return

Spec == Init /\ [][Next]_vars

----------------------------------------------------------------------------
(* Properties of the hybrid detector *)

\* The state holds the value a detect_fraud call returned.
Detected == call.op \in {"detect_fraud", "/detect"} /\ result.keys # {}

NormalPath == Detected /\ result.detection_method = "hybrid_ml_rule"

\* C1: on every non-error call of detect_fraud the returned risk_score is
\* 0.7 * ml_score + 0.3 * rule_score, the weights sum to 1, and the returned
\* ml_score and rule_score are the two values that were blended.
C1_HybridBlend ==
    NormalPath =>
        /\ ml_weight = 7 /\ rule_weight = 3 /\ ml_weight + rule_weight = 10
        /\ result.risk_score * 10 = 7 * result.ml_score + 3 * result.rule_score
        /\ result.ml_score = call.locals.ml_score
        /\ result.rule_score = call.locals.rule_score

C1_Witness ==
    /\ NormalPath
    /\ result.ml_score = 3000 /\ result.rule_score = 1000
    /\ result.risk_score = 2400

Flagged(r) ==
    r.risk_level = "HIGH" /\ r.requires_verification /\ r.block_transaction

NotFlagged(r) ==
    r.risk_level = "LOW" /\ ~r.requires_verification /\ ~r.block_transaction

FlagCondition(r) ==
    r.ml_score >= 3000 \/ r.rule_score >= 3000 \/ r.risk_score >= 4000

\* C2 as stated: every result of detect_fraud is flagged (HIGH, verification,
\* block) iff ml_score >= 0.3 or rule_score >= 0.3 or hybrid_score >= 0.4, and
\* is LOW without verification or block otherwise.
C2_Original ==
    Detected =>
        /\ Flagged(result) <=> FlagCondition(result)
        /\ ~FlagCondition(result) => NotFlagged(result)
        /\ Flagged(result) \/ NotFlagged(result)

\* C2 amended: the same, for every call that does not end in the except
\* clause of detect_fraud (whose result is MEDIUM with verification, no block).
C2_FlagIffOnNormalPath ==
    NormalPath =>
        /\ Flagged(result) <=> FlagCondition(result)
        /\ ~FlagCondition(result) => NotFlagged(result)
        /\ Flagged(result) \/ NotFlagged(result)

C2_Witness ==
    /\ NormalPath
    /\ result.ml_score = 3000 /\ result.rule_score = 1000
    /\ Flagged(result)

\* C3 as stated: for a user with at least 3 recorded transactions the rule
\* score blended for the next transaction comes from the threshold rules
\* evaluated against the history, not from a fixed default return.
C3_RuleScoreFromHistory ==
    (NormalPath /\ Len(HistoryOf(call.before, call.user)) >= 3) =>
        call.locals.rule_path = "rules"

\* C4: the ML prediction step returns 0.5 whenever no model is loaded, feature
\* preparation fails or the prediction call raises, and the classifier's
\* probability otherwise; it always returns a score to detect_fraud.
C4_MlDefaultOnFailure ==
    call.op \in {"detect_fraud", "/detect"} /\ response \in {0, 200} =>
        /\ call.locals.ml_score \in 0..10000
        /\ (ml_model = "none" \/ FeaturesFail(call.tx) \/ call.outcome.raises)
              => call.locals.ml_score = 5000
        /\ ~(ml_model = "none" \/ FeaturesFail(call.tx) \/ call.outcome.raises)
              => call.locals.ml_score = call.outcome.p

C4_Witness ==
    /\ call.op = "detect_fraud"
    /\ ml_model = "loaded" /\ ~FeaturesFail(call.tx) /\ call.outcome.raises
    /\ call.locals.ml_score = 5000
    /\ NormalPath /\ result.ml_score = 5000

\* C5: detect_fraud never raises: it returns a dict holding risk_score,
\* risk_level, requires_verification, block_transaction, ml_score and
\* rule_score for any transaction; when an exception occurs inside it the
\* result is risk_score 0.5, MEDIUM, verification, no block, method "error",
\* and the user histories are unchanged.
C5_DetectNeverRaises ==
    call.op = "detect_fraud" =>
        /\ {"risk_score", "risk_level", "requires_verification",
            "block_transaction", "ml_score", "rule_score"} \subseteq result.keys
        /\ user_histories = call.before
        /\ (~Has(call.tx, "amount") \/ ~Has(call.tx, "hour_of_day")) =>
              /\ result.risk_score = 5000
              /\ result.risk_level = "MEDIUM"
              /\ result.requires_verification
              /\ ~result.block_transaction
              /\ result.detection_method = "error"

C5_Witness ==
    /\ call.op = "detect_fraud"
    /\ ~Has(call.tx, "amount")
    /\ result.detection_method = "error"
    /\ Len(added) > 0

\* C6: every risk_score, ml_score and rule_score the hybrid detector returns
\* lies in [0,1], on the normal path and on the error path, for a classifier
\* probability in [0,1].
C6_ScoresInUnitInterval ==
    Detected =>
        /\ result.risk_score \in 0..10000
        /\ result.ml_score \in 0..10000
        /\ result.rule_score \in 0..10000

C6_Witness ==
    /\ NormalPath
    /\ result.ml_score = 10000
    /\ result.risk_score = 7300

RECURSIVE AddedFor(_, _)
AddedFor(log, u) ==
    IF log = << >> THEN << >>
    ELSE IF Head(log)[1] = u THEN <<Head(log)[2]>> \o AddedFor(Tail(log), u)
    ELSE AddedFor(Tail(log), u)

\* C7: each user's history is exactly the sequence of transactions added for
\* that user, in call order, nothing dropped, reordered or duplicated, and an
\* add for one user leaves every other user's history as it was.
C7_HistoryIsAddedSequence ==
    /\ \A u \in Users : HistoryOf(user_histories, u) = AddedFor(added, u)
    /\ DOMAIN user_histories = {added[i][1] : i \in 1..Len(added)}
    /\ call.op = "add_transaction_to_history" =>
          \A u \in Users \ {call.user} :
              HistoryOf(user_histories, u) = HistoryOf(call.before, u)

C7_Witness ==
    /\ call.op = "add_transaction_to_history"
    /\ Len(HistoryOf(user_histories, "u1")) = 2
    /\ Len(HistoryOf(user_histories, "u2")) = 1
    /\ user_histories["u1"][1] # user_histories["u1"][2]

\* C12: /detect scores the transaction against the user's history as it was
\* before the request and appends it only afterwards: the history read for
\* the scoring and the result are those of the pre-request histories, and
\* after a 200 the user's history is the old one followed by the transaction
\* (longer by exactly one) while every other user's history is unchanged.
C12_ScoredBeforeAppend ==
    (call.op = "/detect" /\ response = 200) =>
        /\ call.locals.user_history = HistoryOf(call.before, call.user)
        /\ call.locals = Locals(call.before, ml_model, call.user, call.tx, call.outcome)
        /\ result = HybridDetectFraud(call.before, ml_model, call.user,
                                      call.tx, call.outcome)
        /\ HistoryOf(user_histories, call.user)
              = Append(HistoryOf(call.before, call.user), call.tx)
        /\ Len(HistoryOf(user_histories, call.user))
              = Len(HistoryOf(call.before, call.user)) + 1
        /\ \A u \in Users \ {call.user} :
              HistoryOf(user_histories, u) = HistoryOf(call.before, u)

\* The third transaction of u1: scored against a history of two (too short
\* for the rule engine), recorded as the third.
C12_Witness ==
    /\ call.op = "/detect" /\ response = 200 /\ call.user = "u1"
    /\ Len(call.locals.user_history) = 2
    /\ call.locals.rule_path = "insufficient_history"
    /\ Len(user_histories["u1"]) = 3
    /\ RuleDetectFraud(user_histories, "u1", call.tx).path = "error"

\* The payload of a /detect request is one the validation rejects.
Rejected(data) ==
    \/ \E f \in {"user_id", "amount", "merchant_category", "city",
                  "device_type", "payment_method", "hour_of_day"} : f \notin data.keys
    \/ data.amount < 0
    \/ data.hour_of_day < 0 \/ data.hour_of_day > 23

----------------------------------------------------------------------------
(* Properties of the rule engine, as the hybrid detector calls it *)

\* The state holds a call in which RuleBasedFraudDetector.detect_fraud ran.
RuleCalled ==
    \/ call.op = "detect_fraud"
    \/ call.op = "/detect" /\ response = 200

\* The rule engine evaluated its five rules in that call.
RulesEvaluated == RuleCalled /\ call.locals.rule_locals.reached

TriggeredRules(rs) == {rs[i].rule : i \in 1..Len(rs)}

\* C17 as stated: the rule engine blocks a transaction if and only if the
\* maximum triggered risk score reaches the block threshold of
\* FRAUD_THRESHOLDS and, in addition, at least 2 rules triggered or that
\* maximum is at least 0.9.
C17_BlockIff ==
    RulesEvaluated =>
        LET l == call.locals.rule_locals
        IN  /\ "block_threshold" \in DOMAIN FRAUD_THRESHOLDS
            /\ call.locals.rule.block_transaction
                  <=> /\ l.max_risk_score >= FRAUD_THRESHOLDS["block_threshold"]
                      /\ \/ l.num_rules_triggered >= 2
                         \/ l.max_risk_score >= 9000

\* C18 as stated: for a user with at least 3 transactions in history the rule
\* engine returns as risk_score the maximum of the risk scores of the rules
\* that triggered (0 when none did), risk_level LOW when it is 0, HIGH when it
\* is at least 0.5, MEDIUM otherwise, and requires_verification exactly when
\* it exceeds 0.2.
C18_RuleScoreIsMaxTriggered ==
    (RulesEvaluated /\ Len(call.locals.user_history) >= 3) =>
        LET m == MaxRisk(call.locals.rule_locals.rule_results)
            r == call.locals.rule
        IN  /\ r.risk_score = m
            /\ r.risk_level = IF m = 0 THEN "LOW"
                              ELSE IF m >= 5000 THEN "HIGH" ELSE "MEDIUM"
            /\ r.requires_verification <=> m > 2000

\* C19 as stated: every rule that triggers contributes the risk_score the
\* fraud_rules table configures for it (0.85, 0.90, 0.80, 0.70, 0.75), and
\* high_amount_night triggers exactly when amount >= 15000 and 2 <= hour <= 5.
C19_RulesUseConfiguredScores ==
    RulesEvaluated =>
        LET rs == call.locals.rule_locals.rule_results
        IN  /\ \A i \in 1..Len(rs) :
                  rs[i].risk_score = fraud_rules[rs[i].rule].risk_score
            /\ "high_amount_night" \in TriggeredRules(rs)
                  <=> /\ call.tx.amount >= 15000
                      /\ 2 <= call.tx.hour /\ call.tx.hour <= 5

\* C20: for a user that is unknown or has fewer than 3 transactions in
\* history the rule engine returns risk_score 0.1, risk_level LOW,
\* requires_verification false, block_transaction false and an empty
\* rule_analysis, whatever the transaction holds.
C20_InsufficientHistoryDefault ==
    (RuleCalled /\ Len(HistoryOf(call.before, call.user)) < 3) =>
        LET r == call.locals.rule
        IN  /\ r.risk_score = 1000
            /\ r.risk_level = "LOW"
            /\ ~r.requires_verification
            /\ ~r.block_transaction
            /\ "rule_analysis" \in r.keys /\ r.rule_analysis = << >>
            /\ call.locals.rule_score = 1000

\* A user with two recorded transactions at home on a mobile sends 60000 at
\* 3 AM from another city on a desktop.
C20_Witness ==
    /\ call.op = "detect_fraud"
    /\ Len(HistoryOf(call.before, call.user)) = 2
    /\ call.before[call.user][1].city = "home"
    /\ Has(call.tx, "hour") /\ call.tx.amount = 60000 /\ call.tx.hour = 3
    /\ call.tx.city = "away"
    /\ call.locals.rule.risk_score = 1000
    /\ call.locals.rule.rule_analysis = << >>

----------------------------------------------------------------------------
(* server.py: POST /detect/batch and POST /analyze/user *)

\* Longest list of transactions in one /analyze/user request.
MaxListLen == 3

\* Longest list of transactions in one /detect/batch request (beside the
\* oversize batch).
MaxBatchLen == 2

\* Transactions recorded in all histories together, in the server specification.
MaxServerTotal == 4

\* The batch size limit of /detect/batch.
MaxBatchSize == 100

\* One entry of a request's "transactions" list, with what the classifier
\* does when that transaction is scored.
Item(data, o) == [data |-> data, outcome |-> o]

ListItems ==
    { Item(Payload(RequiredFields, "u1", 1000, 14, "home", "mobile"),
           [raises |-> FALSE, p |-> 0]),
      Item(Payload(RequiredFields, "u2", 60000, 3, "away", "desktop"),
           [raises |-> FALSE, p |-> 10000]),
      Item(Payload(RequiredFields, "u1", 1000, 24, "home", "mobile"),
           [raises |-> FALSE, p |-> 0]) }

ItemLists(longest) == UNION { [1..n -> ListItems] : n \in 0..longest }

\* A batch of 101 transactions.
OversizeBatch ==
    [i \in 1..(MaxBatchSize + 1) |->
        Item(Payload(RequiredFields, "u1", 1000, 14, "home", "mobile"),
             [raises |-> FALSE, p |-> 0])]

\* JSON bodies of POST /detect/batch.
BatchRequest(keys, is_list, transactions) ==
    [keys |-> keys, is_list |-> is_list, transactions |-> transactions]

BatchRequests ==
    { BatchRequest({"transactions"}, TRUE, l) : l \in ItemLists(MaxBatchLen) \cup {OversizeBatch} }
    \cup { BatchRequest({}, TRUE, << >>),
           BatchRequest({"transactions"}, FALSE, << >>) }

\* The names detect_fraud_batch can read: its own locals and the names bound
\* at module level in server.py.
BatchScope == {"detector", "request", "jsonify", "logger", "datetime",
               "validate_transaction_data", "prepare_transaction_data",
               "data", "transactions", "results", "errors", "i",
               "transaction_data", "is_valid", "validation_message",
               "transaction", "result", "e"}

\* Reading a name that is bound nowhere raises NameError.
NameError(name) == name \notin BatchScope

\* The state of the loop of detect_fraud_batch.
BatchStart(hists) ==
    [histories |-> hists, results |-> << >>, errors |-> << >>,
     scored |-> << >>, recorded |-> << >>]

\* One iteration of the loop, for the transaction at index i (from 0).
BatchStep(acc, model, i, item) ==
    IF ~validate_transaction_data(item.data)
    THEN [acc EXCEPT !.errors = Append(@, [index |-> i, error |-> "validation"])]
    ELSE LET transaction == prepare_transaction_data(item.data)
         IN  IF NameError("user_id")
             THEN [acc EXCEPT !.errors =
                      Append(@, [index |-> i, error |-> "processing"])]
             ELSE LET r == DetectAndRecord(acc.histories, model, item.data.user_id,
                                           transaction, item.outcome)
                  IN  [histories |-> r.histories,
                       results |-> Append(acc.results,
                           [index |-> i, user_id |-> item.data.user_id,
                            decision |-> IF r.result.block_transaction
                                         THEN "block" ELSE "allow",
                            risk_score |-> r.result.risk_score]),
                       errors |-> acc.errors,
                       scored |-> Append(acc.scored, i),
                       recorded |-> Append(acc.recorded,
                                           <<item.data.user_id, transaction>>)]

RECURSIVE BatchLoop(_, _, _, _)
BatchLoop(acc, model, transactions, n) ==
    IF n = 0 THEN acc
    ELSE CHOOSE next \in
             { BatchStep(prev, model, n - 1, transactions[n]) :
                   prev \in {BatchLoop(acc, model, transactions, n - 1)} } : TRUE

CountDecision(results, d) ==
    Cardinality({k \in 1..Len(results) : results[k].decision = d})

\* Mutant: only the validation failures are counted as failed.
FailedCount_validation(errors) ==
    Cardinality({k \in 1..Len(errors) : errors[k].error = "validation"})

\* len(errors)
FailedCount(errors) == Len(errors)

\* The "summary" object of the batch response.
BatchSummary(transactions, results, errors) ==
    [total_transactions |-> Len(transactions),
     successful |-> Len(results),
     failed |-> FailedCount(errors),
     blocked |-> CountDecision(results, "block"),
     allowed |-> CountDecision(results, "allow")]

BatchKeys == {"results", "errors", "summary", "timestamp"}

\* The 200 answer built after the loop.
BatchAnswer(req, loop) ==
    [status |-> 200,
     body |-> [keys |-> BatchKeys, results |-> loop.results,
               errors |-> loop.errors,
               summary |-> BatchSummary(req.transactions,
                                        loop.results, loop.errors)],
     loop |-> loop]

\* detect_fraud_batch: status, body, and the loop state it ends with.
detect_fraud_batch(det, hists, model, req) ==
    IF det = "none"
    THEN [status |-> 503, body |-> NoResult, loop |-> BatchStart(hists)]
    ELSE IF "transactions" \notin req.keys \/ ~req.is_list
    THEN [status |-> 400, body |-> NoResult, loop |-> BatchStart(hists)]
    ELSE IF Len(req.transactions) > MaxBatchSize
    THEN [status |-> 400, body |-> NoResult, loop |-> BatchStart(hists)]
    ELSE CHOOSE answer \in
             { BatchAnswer(req, loop) :
                   loop \in {BatchLoop(BatchStart(hists), model, req.transactions,
                                       Len(req.transactions))} } : TRUE

\* POST /detect/batch
DetectBatch(req) ==
    /\ Idle
    /\ \E r \in {detect_fraud_batch(detector, user_histories, ml_model, req)} :
           /\ TotalRecorded + Len(r.loop.recorded) <= MaxServerTotal
           /\ call' = [op |-> "/detect/batch", request |-> req,
                       before |-> user_histories,
                       scored |-> r.loop.scored, recorded |-> r.loop.recorded]
           /\ response' = r.status
           /\ result' = r.body
           /\ user_histories' = r.loop.histories
           /\ added' = added \o r.loop.recorded
    /\ UNCHANGED <<ml_model, detector>>
    /\ UNCHANGED <<concVars, rankVars>>

\* JSON bodies of POST /analyze/user.
AnalyzeRequest(keys, user_id, is_list, transactions) ==
    [keys |-> keys, user_id |-> user_id, is_list |-> is_list,
     transactions |-> transactions]

AnalyzeRequests ==
    { AnalyzeRequest({"user_id", "transactions"}, u, TRUE, l) :
          u \in Users, l \in ItemLists(MaxListLen) }
    \cup { AnalyzeRequest({"transactions"}, "u1", TRUE, << >>),
           AnalyzeRequest({"user_id", "transactions"}, "u1", FALSE, << >>),
           AnalyzeRequest({}, "u1", TRUE, << >>) }

\* transaction_data.copy() with ['user_id'] = user_id
WithUser(data, user_id) ==
    [data EXCEPT !.keys = @ \cup {"user_id"}, !.user_id = user_id]

\* The state of the loop of analyze_user_behavior; status is 0 while the
\* loop runs and the status of the return statement that left it otherwise.
AnalyzeStart(hists) ==
    [status |-> 0, histories |-> hists, results |-> << >>,
     scored |-> << >>, recorded |-> << >>]

\* Mutant: the transaction is scored and reported but not recorded.
AnalyzeRecord_skip(hists, r) == hists

\* The histories after detector.add_transaction_to_history(user_id, transaction)
AnalyzeRecord(hists, r) == r.histories

\* One iteration of the loop, for the transaction at index i (from 0).
AnalyzeStep(acc, model, user_id, i, item) ==
    IF acc.status # 0 THEN acc
    ELSE LET transaction_data_with_user == WithUser(item.data, user_id)
         IN  IF ~validate_transaction_data(transaction_data_with_user)
             THEN [acc EXCEPT !.status = 400]
             ELSE LET transaction == prepare_transaction_data(transaction_data_with_user)
                      r == DetectAndRecord(acc.histories, model, user_id,
                                           transaction, item.outcome)
                  IN  [status |-> 0,
                       histories |-> AnalyzeRecord(acc.histories, r),
                       results |-> Append(acc.results,
                           [sequence |-> i + 1,
                            decision |-> IF r.result.block_transaction
                                         THEN "block" ELSE "allow",
                            risk_score |-> r.result.risk_score,
                            result |-> r.result]),
                       scored |-> Append(acc.scored,
                           [index |-> i, transaction |-> transaction,
                            locals |-> r.locals]),
                       recorded |-> Append(acc.recorded, <<user_id, transaction>>)]

RECURSIVE AnalyzeLoop(_, _, _, _, _)
AnalyzeLoop(acc, model, user_id, transactions, n) ==
    IF n = 0 THEN acc
    ELSE CHOOSE next \in
             { AnalyzeStep(prev, model, user_id, n - 1, transactions[n]) :
                   prev \in {AnalyzeLoop(acc, model, user_id, transactions, n - 1)} } :
             TRUE

AnalyzeKeys == {"user_id", "transaction_results", "behavioral_analysis",
                "risk_assessment", "timestamp"}

\* The answer once the loop has ended: the status of the return statement
\* that left the loop, or the 200 answer built from the collected lists.
AnalyzeAnswer(req, loop) ==
    IF loop.status # 0
    THEN [status |-> loop.status, body |-> NoResult, loop |-> loop]
    ELSE [status |-> 200,
          body |-> [keys |-> AnalyzeKeys, user_id |-> req.user_id,
                    transaction_results |-> loop.results,
                    transaction_count |-> Len(loop.results),
                    blocked_transactions |-> CountDecision(loop.results, "block"),
                    allowed_transactions |->
                        Len(loop.results) - CountDecision(loop.results, "block")],
          loop |-> loop]

\* analyze_user_behavior: status, body, and the loop state it ends with.
\* The analysis after the loop reads the collected lists only.
analyze_user_behavior(det, hists, model, req) ==
    IF det = "none"
    THEN [status |-> 503, body |-> NoResult, loop |-> AnalyzeStart(hists)]
    ELSE IF req.keys = {} \/ ~({"user_id", "transactions"} \subseteq req.keys)
    THEN [status |-> 400, body |-> NoResult, loop |-> AnalyzeStart(hists)]
    ELSE IF ~req.is_list \/ Len(req.transactions) = 0
    THEN [status |-> 400, body |-> NoResult, loop |-> AnalyzeStart(hists)]
    ELSE CHOOSE answer \in
             { AnalyzeAnswer(req, loop) :
                   loop \in {AnalyzeLoop(AnalyzeStart(hists), model, req.user_id,
                                         req.transactions, Len(req.transactions))} } :
             TRUE

\* POST /analyze/user
AnalyzeUser(req) ==
    /\ Idle
    /\ TotalRecorded + Len(req.transactions) <= MaxServerTotal
    /\ \E r \in {analyze_user_behavior(detector, user_histories, ml_model, req)} :
           /\ call' = [op |-> "/analyze/user", request |-> req,
                       user |-> req.user_id, before |-> user_histories,
                       scored |-> r.loop.scored, recorded |-> r.loop.recorded]
           /\ response' = r.status
           /\ result' = r.body
           /\ user_histories' = r.loop.histories
           /\ added' = added \o r.loop.recorded
    /\ UNCHANGED <<ml_model, detector>>
    /\ UNCHANGED <<concVars, rankVars>>

\* The Flask application: the three handlers that score and record.
NextServer ==
    \/ \E data \in Payloads, o \in MLOutcomes : Detect(data, o)
    \/ \E req \in BatchRequests : DetectBatch(req)
    \/ \E req \in AnalyzeRequests : AnalyzeUser(req)
    \/ Return

SpecServer == Init /\ [][NextServer]_vars

----------------------------------------------------------------------------
(* Properties of /detect/batch and /analyze/user *)

BatchAnswered == call.op = "/detect/batch" /\ response = 200

IndexIn(entries, i) == \E k \in 1..Len(entries) : entries[k].index = i

IndexCount(entries, i) == Cardinality({k \in 1..Len(entries) : entries[k].index = i})

\* C14 as stated: in /detect/batch every transaction that passes validation
\* is scored, appended to its own user's history and reported in results
\* with its index, and every transaction that fails validation is reported
\* in errors with its index without stopping the later ones.
C14_BatchScoresEachValid ==
    BatchAnswered =>
        \A i \in 1..Len(call.request.transactions) :
            LET d == call.request.transactions[i].data
            IN  /\ validate_transaction_data(d) =>
                      /\ IndexIn(result.results, i - 1)
                      /\ \E k \in 1..Len(call.scored) : call.scored[k] = i - 1
                      /\ \E k \in 1..Len(call.recorded) :
                            call.recorded[k] = <<d.user_id, prepare_transaction_data(d)>>
                /\ ~validate_transaction_data(d) => IndexIn(result.errors, i - 1)

\* C15: a /detect/batch request of at most 100 transactions is answered with
\* a summary where successful + failed = total_transactions and
\* blocked + allowed = successful, and every input index is in exactly one
\* of results and errors; a batch of more than 100 is answered 400 and no
\* transaction is scored or recorded.
C15_BatchSummary ==
    (call.op = "/detect/batch" /\ detector # "none"
        /\ "transactions" \in call.request.keys /\ call.request.is_list) =>
        LET n == Len(call.request.transactions)
        IN  /\ n <= 100 =>
                  /\ response = 200
                  /\ result.summary.total_transactions = n
                  /\ result.summary.successful + result.summary.failed = n
                  /\ result.summary.blocked + result.summary.allowed
                        = result.summary.successful
                  /\ result.summary.successful = Len(result.results)
                  /\ \A i \in 0..(n - 1) :
                        IndexCount(result.results, i) + IndexCount(result.errors, i) = 1
                  /\ Len(result.results) + Len(result.errors) = n
            /\ n > 100 =>
                  /\ response = 400
                  /\ call.scored = << >> /\ call.recorded = << >>
                  /\ user_histories = call.before

\* A batch of two, one of which fails validation, answered after earlier
\* requests have recorded transactions.
C15_Witness ==
    /\ BatchAnswered
    /\ Len(call.request.transactions) = 2
    /\ result.summary.total_transactions = 2
    /\ result.summary.failed = 2
    /\ \E k \in 1..Len(result.errors) : result.errors[k].error = "validation"
    /\ \E k \in 1..Len(result.errors) : result.errors[k].error = "processing"
    /\ Len(added) >= 1

RECURSIVE PreparedFor(_, _, _)
PreparedFor(transactions, user_id, n) ==
    IF n = 0 THEN << >>
    ELSE Append(PreparedFor(transactions, user_id, n - 1),
                prepare_transaction_data(WithUser(transactions[n].data, user_id)))

AnalyzeAnswered == call.op = "/analyze/user" /\ response = 200

\* C16: /analyze/user handles the request's transactions in list order for
\* the one given user: transaction i is scored against the earlier history
\* followed by the request's transactions 0..i-1, and on a 200 the user's
\* history has grown by exactly the request's transactions, in order,
\* while every other user's history is unchanged.
C16_AnalyzeSequential ==
    AnalyzeAnswered =>
        LET txs == call.request.transactions
            n == Len(txs)
            old == HistoryOf(call.before, call.user)
        IN  /\ Len(call.scored) = n /\ Len(result.transaction_results) = n
            /\ \A i \in 1..n :
                  /\ call.scored[i].index = i - 1
                  /\ result.transaction_results[i].sequence = i
                  /\ call.scored[i].transaction = PreparedFor(txs, call.user, n)[i]
                  /\ call.scored[i].locals.user_history
                        = old \o PreparedFor(txs, call.user, i - 1)
                  /\ result.transaction_results[i].result
                        = HybridDetectFraud(
                              [u \in DOMAIN call.before \cup {call.user} |->
                                  IF u = call.user
                                  THEN old \o PreparedFor(txs, call.user, i - 1)
                                  ELSE call.before[u]],
                              ml_model, call.user, call.scored[i].transaction,
                              txs[i].outcome)
            /\ HistoryOf(user_histories, call.user)
                  = old \o PreparedFor(txs, call.user, n)
            /\ Len(HistoryOf(user_histories, call.user)) = Len(old) + n
            /\ \A u \in Users \ {call.user} :
                  HistoryOf(user_histories, u) = HistoryOf(call.before, u)

\* Three transactions for u1, who had one before: the first is scored
\* against a history of one, the third against a history of three; one of
\* them named another user in its own payload.
C16_Witness ==
    /\ AnalyzeAnswered /\ call.user = "u1"
    /\ Len(call.request.transactions) = 3
    /\ Len(HistoryOf(call.before, "u1")) = 1
    /\ Len(call.scored[1].locals.user_history) = 1
    /\ call.scored[1].locals.rule_path = "insufficient_history"
    /\ Len(call.scored[3].locals.user_history) = 3
    /\ call.scored[3].locals.rule_path = "error"
    /\ \E i \in 1..3 : call.request.transactions[i].data.user_id = "u2"
    /\ Len(user_histories["u1"]) = 4

----------------------------------------------------------------------------
(* Two request threads running add_transaction_to_history on the shared    *)
(* dict.  A thread can be preempted between any two of the statement's     *)
(* steps: the membership test, the store of the empty list, the load of    *)
(* the user's list, and the append to the loaded list.                     *)

\* Mutant: the membership test always finds the user absent.
UserAbsent_always(d, user_id) == TRUE

\* user_id not in self.user_histories
UserAbsent(d, user_id) == user_id \notin DOMAIN d

\* A request arrives at a thread and its handler calls add_transaction_to_history.
CStart(t, u, tx) ==
    /\ c_pc[t] = "idle"
    /\ c_served[t] < MaxRequests
    /\ c_req' = [c_req EXCEPT ![t] = [op |-> "add", user |-> u, tx |-> tx]]
    /\ c_pc' = [c_pc EXCEPT ![t] = "check"]
    /\ UNCHANGED <<c_dict, c_heap, c_ref, c_served, c_completed, c_overlapped>>
    /\ UNCHANGED <<fraudVars, rankVars>>

\* if user_id not in self.user_histories:
CCheck(t) ==
    /\ c_pc[t] = "check"
    /\ c_pc' = [c_pc EXCEPT ![t] =
                   IF UserAbsent(c_dict, c_req[t].user) THEN "create" ELSE "load"]
    /\ c_overlapped' =
          IF \E o \in Threads \ {t} :
                 /\ c_pc[o] \in {"create", "load", "append"}
                 /\ c_req[o].user = c_req[t].user
          THEN c_overlapped \cup {c_req[t].user}
          ELSE c_overlapped
    /\ UNCHANGED <<c_dict, c_heap, c_req, c_ref, c_served, c_completed>>
    /\ UNCHANGED <<fraudVars, rankVars>>

\* self.user_histories[user_id] = []
CCreate(t) ==
    /\ c_pc[t] = "create"
    /\ c_heap' = Append(c_heap, << >>)
    /\ c_dict' = [u \in DOMAIN c_dict \cup {c_req[t].user} |->
                     IF u = c_req[t].user THEN Len(c_heap) + 1 ELSE c_dict[u]]
    /\ c_pc' = [c_pc EXCEPT ![t] = "load"]
    /\ UNCHANGED <<c_req, c_ref, c_served, c_completed, c_overlapped>>
    /\ UNCHANGED <<fraudVars, rankVars>>

\* self.user_histories[user_id]   (the list the append will be called on)
CLoad(t) ==
    /\ c_pc[t] = "load"
    /\ c_ref' = [c_ref EXCEPT ![t] = c_dict[c_req[t].user]]
    /\ c_pc' = [c_pc EXCEPT ![t] = "append"]
    /\ UNCHANGED <<c_dict, c_heap, c_req, c_served, c_completed, c_overlapped>>
    /\ UNCHANGED <<fraudVars, rankVars>>

\* .append(transaction)
CAppend(t) ==
    /\ c_pc[t] = "append"
    /\ c_heap' = [c_heap EXCEPT ![c_ref[t]] = Append(@, c_req[t].tx)]
    /\ c_completed' = Append(c_completed, <<c_req[t].user, c_req[t].tx>>)
    /\ c_served' = [c_served EXCEPT ![t] = @ + 1]
    /\ c_pc' = [c_pc EXCEPT ![t] = "idle"]
    /\ UNCHANGED <<c_dict, c_req, c_ref, c_overlapped>>
    /\ UNCHANGED <<fraudVars, rankVars>>

NextConc ==
    \/ \E t \in Threads, u \in Users, tx \in HistoryInputs : CStart(t, u, tx)
    \/ \E t \in Threads : CCheck(t)
    \/ \E t \in Threads : CCreate(t)
    \/ \E t \in Threads : CLoad(t)
    \/ \E t \in Threads : CAppend(t)

InitThreads ==
    /\ InitFraud
    /\ ml_model = "none"
    /\ detector = "ready"
    /\ InitConc
    /\ InitRankIdle

SpecConc == InitThreads /\ [][NextConc]_vars

\* The user's history as the shared dict holds it.
CHistory(u) == IF u \in DOMAIN c_dict THEN c_heap[c_dict[u]] ELSE << >>

\* C8: history mutation is unguarded: a transaction of a finished add goes
\* missing from the user's history only when two adds for the same user ran
\* at the same time (adds that do not overlap lose nothing), and such an
\* interleaving of check, creation and append for a not-yet-seen user exists.
C8_LostOnlyByOverlap ==
    \A u \in Users :
        /\ u \notin c_overlapped => CHistory(u) = AddedFor(c_completed, u)
        /\ Len(CHistory(u)) <= Len(AddedFor(c_completed, u))
                                 + Cardinality({t \in Threads : c_pc[t] # "idle"})

\* Both requests finished, both were for the not-yet-seen user u1, and one of
\* the two transactions is missing from the final history.
C8_LostUpdate ==
    /\ \A t \in Threads : c_pc[t] = "idle" /\ c_served[t] = 1
    /\ Len(AddedFor(c_completed, "u1")) = 2
    /\ Len(CHistory("u1")) = 1

----------------------------------------------------------------------------
(* card_ranking_model/api/ranking_api.py *)

\* Largest number of cardholders in one request.
MaxBatch == 3

Cardholders == {"ch1", "ch2", "ch3"}

\* Health scores the classifier can give (predict_proba[:, 1]).
HealthScores == {2000, 8000}

\* Values of the query parameter top_k.
TopKs == {0, 1, 2, 100, 101}

\* The bounds /rank-top accepts for top_k.
MinTopK == 1
MaxTopK == 100

\* BatchRankingRequest.cardholders: a list of CardholderRequest.
RankRequests ==
    UNION { [1..n -> [user_id : Cardholders]] : n \in 0..MaxBatch }

Min(a, b) == IF a <= b THEN a ELSE b

\* load_model_and_pipeline: joblib.load raises when the model file is missing
\* (nothing is assigned); FeatureEngineer() is assigned before load_pipeline,
\* which only prints a warning when the pipeline file is missing.
load_model_and_pipeline(model_file, pipeline_file, clf) ==
    IF ~model_file
    THEN [model |-> "none", fe |-> "none", score |-> << >>]
    ELSE [model |-> "loaded",
          fe |-> IF pipeline_file THEN "fitted" ELSE "unfitted",
          score |-> clf]

\* prepare_cardholder_data: user_id becomes cardholder_id.
prepare_cardholder_data(cardholder) == [cardholder_id |-> cardholder.user_id]

\* feature_engineer.transform raises on an unfitted pipeline and on an empty
\* DataFrame (it has no column to read).
TransformRaises(fe, data) == fe # "fitted" \/ data = << >>

\* Mutant: the sort is ascending.
InsertSorted_ascending(sorted, x) ==
    LET before == {i \in 1..Len(sorted) : sorted[i].health_score <= x.health_score}
        k == Cardinality({i \in before : \A j \in 1..i : j \in before})
    IN  SubSeq(sorted, 1, k) \o <<x>> \o SubSeq(sorted, k + 1, Len(sorted))

\* One step of results.sort(key=health_score, reverse=True): x goes behind
\* every entry whose score is at least its own (the sort is stable).
InsertSorted(sorted, x) ==
    LET before == {i \in 1..Len(sorted) : sorted[i].health_score >= x.health_score}
        k == Cardinality({i \in before : \A j \in 1..i : j \in before})
    IN  SubSeq(sorted, 1, k) \o <<x>> \o SubSeq(sorted, k + 1, Len(sorted))

RECURSIVE SortByHealth(_)
SortByHealth(results) ==
    IF results = << >> THEN << >>
    ELSE InsertSorted(SortByHealth(SubSeq(results, 1, Len(results) - 1)),
                      results[Len(results)])

\* rank_cardholders: HTTPException(500) or the ranked list.
rank_cardholders(model, fe, score, data) ==
    IF model = "none" \/ fe = "none"
    THEN [status |-> 500, detail |-> "Model not loaded", ranked |-> << >>]
    ELSE IF TransformRaises(fe, data)
    THEN [status |-> 500, detail |-> "Ranking failed", ranked |-> << >>]
    ELSE LET results == [i \in 1..Len(data) |->
                            [cardholder_id |-> data[i].cardholder_id,
                             health_score |-> score[data[i].cardholder_id],
                             rank |-> 0]]
             sorted == SortByHealth(results)
         IN  [status |-> 200, detail |-> "",
              ranked |-> [i \in 1..Len(sorted) |-> [sorted[i] EXCEPT !.rank = i]]]

PrepareAll(req) == [i \in 1..Len(req) |-> prepare_cardholder_data(req[i])]

\* POST /rank-single: the response
rank_single_cardholder(model, fe, score, cardholder) ==
    LET r == rank_cardholders(model, fe, score, <<prepare_cardholder_data(cardholder)>>)
    IN  IF r.status # 200
        THEN [status |-> 500, ranking_called |-> TRUE, cardholder |-> << >>]
        ELSE [status |-> 200, ranking_called |-> TRUE, cardholder |-> <<r.ranked[1]>>]

\* POST /rank-batch: the response
rank_batch_cardholders(model, fe, score, req) ==
    LET r == rank_cardholders(model, fe, score, PrepareAll(req))
    IN  IF r.status # 200
        THEN [status |-> 500, ranking_called |-> TRUE,
              total_cardholders |-> 0, ranked_cardholders |-> << >>]
        ELSE [status |-> 200, ranking_called |-> TRUE,
              total_cardholders |-> Len(r.ranked), ranked_cardholders |-> r.ranked]

\* Mutant: one entry too few.
TopSlice_short(ranked, top_k) == SubSeq(ranked, 1, Min(top_k, Len(ranked)) - 1)

\* ranked_results[:top_k] for top_k >= 1
TopSlice(ranked, top_k) == SubSeq(ranked, 1, Min(top_k, Len(ranked)))

\* POST /rank-top: the response
get_top_cardholders(model, fe, score, req, top_k) ==
    IF top_k < MinTopK \/ top_k > MaxTopK
    THEN [status |-> 400, ranking_called |-> FALSE,
          total_cardholders |-> 0, top_k |-> top_k, top_cardholders |-> << >>]
    ELSE LET r == rank_cardholders(model, fe, score, PrepareAll(req))
         IN  IF r.status # 200
             THEN [status |-> 500, ranking_called |-> TRUE,
                   total_cardholders |-> 0, top_k |-> top_k, top_cardholders |-> << >>]
             ELSE [status |-> 200, ranking_called |-> TRUE,
                   total_cardholders |-> Len(r.ranked), top_k |-> top_k,
                   top_cardholders |-> TopSlice(r.ranked, top_k)]

\* feature_engineer is not None
PipelineFlag(model, fe) == fe # "none"

\* GET /health: the HealthResponse
health_check(model, fe) ==
    [status |-> 200,
     health |-> IF model # "none" /\ fe # "none" THEN "healthy" ELSE "unhealthy",
     model_loaded |-> model # "none",
     feature_pipeline_loaded |-> PipelineFlag(model, fe)]

\* The API after its startup (lifespan) has run load_model_and_pipeline.
InitRank ==
    /\ InitFraud
    /\ ml_model = "none"
    /\ detector = "none"
    /\ InitConc
    /\ \E mf \in BOOLEAN, pf \in BOOLEAN, clf \in [Cardholders -> HealthScores] :
          LET l == load_model_and_pipeline(mf, pf, clf)
          IN  r_model = l.model /\ r_fe = l.fe /\ r_score = l.score
    /\ r_call = NoCall
    /\ r_resp = NoResponse

RankSingle(cardholder) ==
    /\ r_call = NoCall
    /\ r_call' = [op |-> "/rank-single", cardholder |-> cardholder]
    /\ r_resp' = rank_single_cardholder(r_model, r_fe, r_score, cardholder)
    /\ UNCHANGED <<r_model, r_fe, r_score>>
    /\ UNCHANGED <<fraudVars, concVars>>

RankBatch(req) ==
    /\ r_call = NoCall
    /\ r_call' = [op |-> "/rank-batch", cardholders |-> req]
    /\ r_resp' = rank_batch_cardholders(r_model, r_fe, r_score, req)
    /\ UNCHANGED <<r_model, r_fe, r_score>>
    /\ UNCHANGED <<fraudVars, concVars>>

RankTop(req, top_k) ==
    /\ r_call = NoCall
    /\ r_call' = [op |-> "/rank-top", cardholders |-> req, top_k |-> top_k]
    /\ r_resp' = get_top_cardholders(r_model, r_fe, r_score, req, top_k)
    /\ UNCHANGED <<r_model, r_fe, r_score>>
    /\ UNCHANGED <<fraudVars, concVars>>

Health ==
    /\ r_call = NoCall
    /\ r_call' = [op |-> "/health"]
    /\ r_resp' = health_check(r_model, r_fe)
    /\ UNCHANGED <<r_model, r_fe, r_score>>
    /\ UNCHANGED <<fraudVars, concVars>>

\* The response is sent; the API waits for the next request.
RankReturn ==
    /\ r_call # NoCall
    /\ r_call' = NoCall
    /\ r_resp' = NoResponse
    /\ UNCHANGED <<r_model, r_fe, r_score>>
    /\ UNCHANGED <<fraudVars, concVars>>

NextRank ==
    \/ \E c \in Cardholders : RankSingle([user_id |-> c])
    \/ \E req \in RankRequests : RankBatch(req)
    \/ \E req \in RankRequests, k \in TopKs : RankTop(req, k)
    \/ Health
    \/ RankReturn

SpecRank == InitRank /\ [][NextRank]_vars

----------------------------------------------------------------------------
(* Properties of the ranking API *)

CountIn(seq, c) == Cardinality({i \in 1..Len(seq) : seq[i] = c})

Ids(ranked) == [i \in 1..Len(ranked) |-> ranked[i].cardholder_id]

UserIds(req) == [i \in 1..Len(req) |-> req[i].user_id]

\* ranked is a ranking of the request: a permutation of its cardholders, each
\* with the classifier's score, by non-increasing score, ranked 1..n.
IsRankingOf(ranked, req, score) ==
    /\ Len(ranked) = Len(req)
    /\ \A c \in Cardholders : CountIn(Ids(ranked), c) = CountIn(UserIds(req), c)
    /\ \A i \in 1..Len(ranked) :
          /\ ranked[i].health_score = score[ranked[i].cardholder_id]
          /\ ranked[i].rank = i
    /\ \A i \in 1..Len(ranked), j \in 1..Len(ranked) :
          i < j => ranked[i].health_score >= ranked[j].health_score

\* C9: rank_cardholders returns a permutation of the input cardholders by
\* non-increasing health_score with ranks 1..n in list order; the first entry
\* holds a maximal score and total_cardholders is the size of the request.
C9_RankingIsSortedPermutation ==
    (r_call.op = "/rank-batch" /\ r_resp.status = 200) =>
        /\ IsRankingOf(r_resp.ranked_cardholders, r_call.cardholders, r_score)
        /\ r_resp.total_cardholders = Len(r_call.cardholders)
        /\ \A i \in 1..Len(r_call.cardholders) :
              r_resp.ranked_cardholders[1].health_score
                  >= r_score[r_call.cardholders[i].user_id]

C9_Witness ==
    /\ r_call.op = "/rank-batch" /\ r_resp.status = 200
    /\ Len(r_call.cardholders) = 3
    /\ r_resp.ranked_cardholders[1].cardholder_id # r_call.cardholders[1].user_id
    /\ r_resp.ranked_cardholders[1].health_score > r_resp.ranked_cardholders[3].health_score
    /\ r_resp.ranked_cardholders[1].health_score = r_resp.ranked_cardholders[2].health_score

\* C10: /rank-top answers 400 for top_k outside 1..100 before any ranking is
\* done; for a valid top_k it returns the first min(top_k, n) entries of the
\* ranking /rank-batch returns for the same cardholders, ranked
\* 1..min(top_k, n), and reports total_cardholders = n.
C10_TopIsPrefixOfBatch ==
    r_call.op = "/rank-top" =>
        LET k == r_call.top_k
            n == Len(r_call.cardholders)
            batch == rank_batch_cardholders(r_model, r_fe, r_score, r_call.cardholders)
        IN  /\ (k < 1 \/ k > 100) => (r_resp.status = 400 /\ ~r_resp.ranking_called)
            /\ (k >= 1 /\ k <= 100) =>
                  /\ r_resp.status = batch.status
                  /\ r_resp.status = 200 =>
                        /\ Len(r_resp.top_cardholders) = Min(k, n)
                        /\ \A i \in 1..Min(k, n) :
                              /\ r_resp.top_cardholders[i] = batch.ranked_cardholders[i]
                              /\ r_resp.top_cardholders[i].rank = i
                        /\ r_resp.total_cardholders = n

C10_Witness ==
    /\ r_call.op = "/rank-top" /\ r_resp.status = 200
    /\ r_call.top_k = 2 /\ Len(r_call.cardholders) = 3
    /\ Len(r_resp.top_cardholders) = 2
    /\ r_resp.total_cardholders = 3

\* C11 as stated: /health reports feature_pipeline_loaded true only when the
\* feature-engineering pipeline was loaded from its saved file, and status
\* healthy only when both the model and that pipeline are loaded.
C11_HealthReportsLoadedPipeline ==
    r_call.op = "/health" =>
        /\ r_resp.feature_pipeline_loaded => r_fe = "fitted"
        /\ r_resp.health = "healthy" => (r_model = "loaded" /\ r_fe = "fitted")

\* The ranking model or the feature pipeline is not loaded.
NotLoaded == r_model = "none" \/ r_fe # "fitted"

\* The response carries no ranking.
NoRanking ==
    /\ r_call.op = "/rank-single" => r_resp.cardholder = << >>
    /\ r_call.op = "/rank-batch" => r_resp.ranked_cardholders = << >>
    /\ r_call.op = "/rank-top" => r_resp.top_cardholders = << >>

\* C21 as stated: when the ranking model or the feature pipeline is not
\* loaded, /rank-single, /rank-batch and /rank-top each answer with status
\* 500 and never return a ranking, and /health reports status unhealthy.
C21_NotLoadedAnswers500 ==
    NotLoaded =>
        /\ r_call.op \in {"/rank-single", "/rank-batch", "/rank-top"} =>
              (r_resp.status = 500 /\ NoRanking)
        /\ r_call.op = "/health" => r_resp.health = "unhealthy"

====
